---------------------------- MODULE Spec2Model ----------------------------
(***************************************************************************)
(* Download orchestration state machine of the WINC1500 HTTP downloader    *)
(* (src/WINC1500_HTTP/src/main21.c): the download_state bitmask, the two   *)
(* byte counters, the Wi-Fi and HTTP client callbacks, the watchdog block  *)
(* of the main loop and the millisecond countdown timer.                   *)
(*                                                                         *)
(* The Wi-Fi driver and the HTTP client engine are collaborators outside   *)
(* the program: they are the environment.  While a request of the program  *)
(* is outstanding the HTTP engine may deliver any event with any           *)
(* parameters, in any order; the driver delivers link events in the order  *)
(* a link produces them.  Calls into the collaborators are recorded as     *)
(* outputs of the step that makes them.                                    *)
(*                                                                         *)
(* The one-second timer of the main loop only toggles the LED and prints   *)
(* the time left; it touches no state of the download and is left out.     *)
(***************************************************************************)
EXTENDS Integers, FiniteSets, Sequences, TLC

(***************************************************************************)
(* Bounds of the model.                                                    *)
(***************************************************************************)
\* largest Content-Length the server announces
MaxLen == 3
\* largest length of one body chunk
MaxChunk == 1
\* chunk events are delivered while received_file_size stays within this
MaxReceived == 3
\* the bounded clock stops at MaxClockTicks * TickMS milliseconds
MaxClockTicks == 3
\* steps of the clock after the countdown of the timer taken on its own
MaxElapseSteps == 5

\* milliseconds that pass in one step of the bounded clock
TickMS == 40 * 1000
\* milliseconds that pass in one step of the wrapping clock: 2^31, half the
\* period of the clock, as a 32-bit word
WrapTickMS == (0 - 2 ^ 30) - 2 ^ 30

(***************************************************************************)
(* Program constants.                                                      *)
(***************************************************************************)
\* uint32_t and long are 32 bits wide on the target; Half is 2^16
Half == 2 ^ 16
\* errno values used as disconnect reasons
EAGAIN == 11
ECONNRESET == 104
\* HTTP status of a successful response
HTTP_OK == 200
\* capacity of the receive buffer (main.h), scaled to the model's lengths
MAIN_BUFFER_MAX_SIZE == 1
\* watchdog windows in seconds
FIRST_WINDOW == 40
NEXT_WINDOW == 60

(***************************************************************************)
(* download_state: one bit per flag, modelled as a set of flag names; a    *)
(* mask is a set of flags.                                                 *)
(***************************************************************************)
NOT_READY == {}
WIFI_CONNECTED == {"WIFI_CONNECTED"}
GET_REQUESTED == {"GET_REQUESTED"}
DOWNLOADING == {"DOWNLOADING"}
COMPLETED == {"COMPLETED"}
CANCELED == {"CANCELED"}

init_state == NOT_READY

clear_state(ds, mask) == ds \ mask

add_state(ds, mask) == ds \cup mask

is_state_set(ds, mask) == (ds \cap mask) # {}

(***************************************************************************)
(* Calls into the collaborators, recorded by name.                         *)
(***************************************************************************)
SEND_REQUEST == "http_client_send_request"
CLOSE == "http_client_close"
REQUEST_DHCP == "m2m_wifi_request_dhcp_client"
WIFI_CONNECT == "m2m_wifi_connect"

(***************************************************************************)
(* start_download: the collaborator calls it makes when the download state *)
(* is ds: the HTTP GET or nothing.  It changes no program state.           *)
(***************************************************************************)
\* start_download without its check of GET_REQUESTED
start_download_NoRequestedCheck(ds) ==
    IF ~is_state_set(ds, WIFI_CONNECTED) THEN {}
    ELSE IF is_state_set(ds, DOWNLOADING) THEN {}
    ELSE {SEND_REQUEST}

start_download(ds) ==
    IF ~is_state_set(ds, WIFI_CONNECTED) THEN {}
    ELSE IF is_state_set(ds, GET_REQUESTED) THEN {}
    ELSE IF is_state_set(ds, DOWNLOADING) THEN {}
    ELSE {SEND_REQUEST}

(***************************************************************************)
(* The attempt state the callbacks work on: the flags and the two sizes.   *)
(***************************************************************************)
Attempt(ds, size, recv) ==
    [down_state |-> ds, http_file_size |-> size, received_file_size |-> recv]

(***************************************************************************)
(* store_file_packet(data, length) applied to attempt state a; hasdata is  *)
(* data != NULL.  The byte counts of the model stay below MaxReceived, far *)
(* from the 2^32 at which the uint32_t sum would wrap.                     *)
(***************************************************************************)
\* store_file_packet that never zeroes the count when DOWNLOADING is clear
store_file_packet_NoRestart(a, hasdata, length) ==
    IF (~hasdata) \/ (length < 1) THEN a
    ELSE
      LET recv == a.received_file_size + length
          ds1  == add_state(a.down_state, DOWNLOADING)
          ds2  == IF recv >= a.http_file_size THEN add_state(ds1, COMPLETED)
                  ELSE ds1
      IN  Attempt(ds2, a.http_file_size, recv)

\* store_file_packet that completes only beyond the expected length
store_file_packet_StrictlyMore(a, hasdata, length) ==
    IF (~hasdata) \/ (length < 1) THEN a
    ELSE
      LET fresh == ~is_state_set(a.down_state, DOWNLOADING)
          ds1   == IF fresh THEN add_state(a.down_state, DOWNLOADING)
                   ELSE a.down_state
          base  == IF fresh THEN 0 ELSE a.received_file_size
          recv  == base + length
          ds2   == IF recv > a.http_file_size THEN add_state(ds1, COMPLETED)
                   ELSE ds1
      IN  Attempt(ds2, a.http_file_size, recv)

store_file_packet(a, hasdata, length) ==
    IF (~hasdata) \/ (length < 1) THEN a
    ELSE
      LET fresh == ~is_state_set(a.down_state, DOWNLOADING)
          ds1   == IF fresh THEN add_state(a.down_state, DOWNLOADING)
                   ELSE a.down_state
          base  == IF fresh THEN 0 ELSE a.received_file_size
          recv  == base + length
          ds2   == IF recv >= a.http_file_size THEN add_state(ds1, COMPLETED)
                   ELSE ds1
      IN  Attempt(ds2, a.http_file_size, recv)

(***************************************************************************)
(* 32-bit arithmetic.  A 32-bit word is represented by the integer of      *)
(* -2^31 .. 2^31-1 congruent to it modulo 2^32, which is the value the     *)
(* word has when it is converted to long; sums and differences are taken   *)
(* in 16-bit halves so that no intermediate value leaves that range.       *)
(***************************************************************************)
Join32(hi, lo) == (((hi + Half \div 2) % Half) - Half \div 2) * Half + lo

Add32(x, y) ==
    LET lo == (x % Half) + (y % Half)
        hi == (x \div Half) + (y \div Half) + (lo \div Half)
    IN  Join32(hi, lo % Half)

Sub32(x, y) ==
    LET lo == (x % Half) - (y % Half)
        hi == (x \div Half) - (y \div Half) + (lo \div Half)
    IN  Join32(hi, lo % Half)

(***************************************************************************)
(* Countdown timer on the 32-bit millisecond clock ms.                     *)
(***************************************************************************)
TimerInit == [end_time |-> 0]

TimerCountdownMS(ms, timeout) == [end_time |-> Add32(ms, timeout)]

TimerCountdown(ms, timeout) == [end_time |-> Add32(ms, timeout * 1000)]

\* TimerIsExpired that is true from the deadline on
TimerIsExpired_AtDeadline(t, ms) ==
    LET left == Sub32(t.end_time, ms)
    IN  left <= 0

TimerIsExpired(t, ms) ==
    LET left == Sub32(t.end_time, ms)
    IN  left < 0

TimerLeftMS(t, ms) ==
    LET left == Sub32(t.end_time, ms)
    IN  IF left < 0 THEN 0 ELSE left

VARIABLES
    down_state,          \* static download_state down_state
    http_file_size,      \* static uint32_t http_file_size
    received_file_size,  \* static uint32_t received_file_size
    milliSeconds,        \* static uint32_t milliSeconds
    timer,               \* Timer timer of main (the watchdog)
    link,                \* the link as the Wi-Fi driver has reported it
    last,                \* the event handled by the last step
    calls,               \* collaborator functions the last step called
    outstanding,         \* a request was issued and has not ended yet
    chunk_sum,           \* bytes of the chunks since the last success headers
    rewound,             \* whether the last step lowered received_file_size
    probe                \* the timer functions exercised on their own

vars == <<down_state, http_file_size, received_file_size, milliSeconds, timer,
          link, last, calls, outstanding, chunk_sum, rewound, probe>>

(***************************************************************************)
(* The inputs of the events.                                               *)
(***************************************************************************)
\* a success and a failure (404 Not Found)
ResponseCodes == {HTTP_OK, 404}
Lengths == 0 .. MaxLen
ChunkLengths == 0 .. MaxChunk
Reasons == {-EAGAIN, -ECONNRESET}
\* chunk_sum when no such sequence of chunks is under way
NoSum == 0 - 1

Event(type, code, length, hasdata, is_complete) ==
    [type |-> type, code |-> code, length |-> length,
     hasdata |-> hasdata, is_complete |-> is_complete]

Plain(type) == Event(type, 0, 0, FALSE, FALSE)

\* probe of a timer that was armed n seconds ago plus sec seconds and ms
\* milliseconds, in steps steps of the clock; expired and left are the
\* results of the two queries when fresh, and FALSE and 0 otherwise
Probe(armed, n, sec, ms, steps, fresh, expired, left) ==
    [armed |-> armed, n |-> n, sec |-> sec, ms |-> ms, steps |-> steps,
     fresh |-> fresh, expired |-> expired, left |-> left]

NoProbe == Probe(FALSE, 0, 0, 0, 0, FALSE, FALSE, 0)

\* whether a request is in flight after a step that made the calls cs; ended
\* tells whether the step ended the request that was in flight before it
InFlight(ended, cs) ==
    (SEND_REQUEST \in cs) \/ (outstanding /\ ~ended)

Init ==
    /\ down_state = init_state
    /\ http_file_size = 0
    /\ received_file_size = 0
    /\ milliSeconds = 0
    /\ timer = TimerCountdown(0, FIRST_WINDOW)
    /\ link = "down"
    /\ last = Plain("init")
    /\ calls = {}
    /\ outstanding = FALSE
    /\ chunk_sum = NoSum
    /\ rewound = FALSE
    /\ probe = NoProbe

(***************************************************************************)
(* http_client_callback, one operator per event type.  Each gives the      *)
(* attempt state after the handler and the collaborator calls it made.     *)
(***************************************************************************)
Outcome(a, cs) == [a |-> a, calls |-> cs]

SockConnected(a) == Outcome(a, {})

Requested(a) ==
    Outcome(Attempt(add_state(a.down_state, GET_REQUESTED),
                    a.http_file_size, a.received_file_size), {})

RecvResponse(a, code, length, hasdata) ==
    IF code # HTTP_OK
    THEN Outcome(Attempt(add_state(a.down_state, CANCELED),
                         a.http_file_size, a.received_file_size), {})
    ELSE
      LET a1 == Attempt(a.down_state, length, 0)
      IN  IF length <= MAIN_BUFFER_MAX_SIZE
          THEN LET a2 == store_file_packet(a1, hasdata, length)
               IN  Outcome(Attempt(add_state(a2.down_state, COMPLETED),
                                   a2.http_file_size, a2.received_file_size),
                           {CLOSE})
          ELSE Outcome(a1, {})

\* the chunk handler closing the transport whenever the download is complete
RecvChunkedData_CloseWhenCompleted(a, length, hasdata, is_complete) ==
    LET a1 == store_file_packet(a, hasdata, length)
    IN  IF is_complete
        THEN Outcome(Attempt(add_state(a1.down_state, COMPLETED),
                             a1.http_file_size, a1.received_file_size),
                     {CLOSE})
        ELSE Outcome(a1, IF is_state_set(a1.down_state, COMPLETED)
                         THEN {CLOSE} ELSE {})

\* the chunk handler looking at the final-chunk signal only when the chunk
\* has data
RecvChunkedData_SignalNeedsData(a, length, hasdata, is_complete) ==
    LET a1 == store_file_packet(a, hasdata, length)
    IN  IF is_complete /\ hasdata /\ length >= 1
        THEN Outcome(Attempt(add_state(a1.down_state, COMPLETED),
                             a1.http_file_size, a1.received_file_size),
                     {CLOSE})
        ELSE Outcome(a1, {})

RecvChunkedData(a, length, hasdata, is_complete) ==
    LET a1 == store_file_packet(a, hasdata, length)
    IN  IF is_complete
        THEN Outcome(Attempt(add_state(a1.down_state, COMPLETED),
                             a1.http_file_size, a1.received_file_size),
                     {CLOSE})
        ELSE Outcome(a1, {})

\* the disconnect handler retrying whatever the reason
Disconnected_AnyReason(a, reason) ==
    LET ds == a.down_state \ (DOWNLOADING \cup GET_REQUESTED)
    IN  Outcome(Attempt(ds, a.http_file_size, a.received_file_size),
                start_download(ds))

Disconnected(a, reason) ==
    IF reason = -EAGAIN
    THEN LET ds1 == IF is_state_set(a.down_state, DOWNLOADING)
                    THEN clear_state(a.down_state, DOWNLOADING)
                    ELSE a.down_state
             ds2 == IF is_state_set(ds1, GET_REQUESTED)
                    THEN clear_state(ds1, GET_REQUESTED)
                    ELSE ds1
         IN  Outcome(Attempt(ds2, a.http_file_size, a.received_file_size),
                     start_download(ds2))
    ELSE Outcome(a, {})

(***************************************************************************)
(* wifi_cb, one operator per notification.                                 *)
(***************************************************************************)
StateChangedConnected(a) == Outcome(a, {REQUEST_DHCP})

\* the link-disconnected handler leaving GET_REQUESTED as it was
StateChangedDisconnected_KeepsRequested(a) ==
    LET ds1 == clear_state(a.down_state, WIFI_CONNECTED)
        ds2 == IF is_state_set(ds1, DOWNLOADING)
               THEN clear_state(ds1, DOWNLOADING)
               ELSE ds1
    IN  Outcome(Attempt(ds2, a.http_file_size, a.received_file_size),
                {WIFI_CONNECT})

\* the link-disconnected handler starting over from the initial state
StateChangedDisconnected_StartsOver(a) ==
    Outcome(Attempt(init_state, a.http_file_size, a.received_file_size),
            {WIFI_CONNECT})

StateChangedDisconnected(a) ==
    LET ds1 == clear_state(a.down_state, WIFI_CONNECTED)
        ds2 == IF is_state_set(ds1, DOWNLOADING)
               THEN clear_state(ds1, DOWNLOADING)
               ELSE ds1
        ds3 == IF is_state_set(ds2, GET_REQUESTED)
               THEN clear_state(ds2, GET_REQUESTED)
               ELSE ds2
    IN  Outcome(Attempt(ds3, a.http_file_size, a.received_file_size),
                {WIFI_CONNECT})

DhcpConf(a) ==
    LET ds1 == add_state(a.down_state, WIFI_CONNECTED)
    IN  Outcome(Attempt(ds1, a.http_file_size, a.received_file_size),
                start_download(ds1))

(***************************************************************************)
(* The body of the watchdog block of the main loop, after the rearm.       *)
(***************************************************************************)
\* the watchdog block restarting completed attempts only
TimerExpired_CompletedOnly(a) ==
    IF is_state_set(a.down_state, COMPLETED)
    THEN LET ds1 == add_state(NOT_READY, WIFI_CONNECTED)
         IN  Outcome(Attempt(ds1, a.http_file_size, a.received_file_size),
                     start_download(ds1))
    ELSE Outcome(a, {})

\* the watchdog block resetting the state at every expiry
TimerExpired_EveryExpiry(a) ==
    LET ds1 == add_state(NOT_READY, WIFI_CONNECTED)
    IN  Outcome(Attempt(ds1, a.http_file_size, a.received_file_size),
                start_download(ds1))

\* the watchdog block re-asserting WIFI_CONNECTED without clearing the flags
TimerExpired_NoClear(a) ==
    IF is_state_set(a.down_state, COMPLETED)
       \/ is_state_set(a.down_state, CANCELED)
    THEN LET ds1 == add_state(a.down_state, WIFI_CONNECTED)
         IN  Outcome(Attempt(ds1, a.http_file_size, a.received_file_size),
                     start_download(ds1))
    ELSE Outcome(a, {})

TimerExpired(a) ==
    IF is_state_set(a.down_state, COMPLETED)
       \/ is_state_set(a.down_state, CANCELED)
    THEN LET ds1 == add_state(NOT_READY, WIFI_CONNECTED)
         IN  Outcome(Attempt(ds1, a.http_file_size, a.received_file_size),
                     start_download(ds1))
    ELSE Outcome(a, {})

(***************************************************************************)
(* Actions: one per event the main loop dispatches, one for the watchdog   *)
(* block, one for the clock.                                               *)
(***************************************************************************)
Current == Attempt(down_state, http_file_size, received_file_size)

\* The program state after a handler with outcome o, reported as event ev.
Handled(o, ev, ended, sum) ==
    /\ down_state' = o.a.down_state
    /\ http_file_size' = o.a.http_file_size
    /\ received_file_size' = o.a.received_file_size
    /\ calls' = o.calls
    /\ last' = ev
    /\ outstanding' = InFlight(ended, o.calls)
    /\ chunk_sum' = sum
    /\ rewound' = (o.a.received_file_size < received_file_size)
    /\ UNCHANGED probe

HttpSockConnected ==
    /\ outstanding
    /\ Handled(SockConnected(Current), Plain("SOCK_CONNECTED"), FALSE, NoSum)
    /\ UNCHANGED <<milliSeconds, timer, link>>

HttpRequested ==
    /\ outstanding
    /\ Handled(Requested(Current), Plain("REQUESTED"), FALSE, NoSum)
    /\ UNCHANGED <<milliSeconds, timer, link>>

HttpRecvResponse ==
    \E code \in ResponseCodes, length \in Lengths, hasdata \in BOOLEAN :
        /\ outstanding
        /\ Handled(RecvResponse(Current, code, length, hasdata),
                   Event("RECV_RESPONSE", code, length, hasdata, FALSE),
                   FALSE,
                   IF code = HTTP_OK THEN 0 ELSE NoSum)
        /\ UNCHANGED <<milliSeconds, timer, link>>

HttpRecvChunkedData ==
    \E length \in ChunkLengths, hasdata \in BOOLEAN, is_complete \in BOOLEAN :
        LET o == RecvChunkedData(Current, length, hasdata, is_complete)
        IN  /\ outstanding
            /\ o.a.received_file_size <= MaxReceived
            /\ Handled(o,
                       Event("RECV_CHUNKED_DATA", 0, length, hasdata,
                             is_complete),
                       FALSE,
                       IF chunk_sum # NoSum /\ hasdata /\ length >= 1
                          /\ ~is_complete
                       THEN chunk_sum + length ELSE NoSum)
            /\ UNCHANGED <<milliSeconds, timer, link>>

HttpDisconnected ==
    \E reason \in Reasons :
        /\ outstanding
        /\ Handled(Disconnected(Current, reason),
                   Event("DISCONNECTED", reason, 0, FALSE, FALSE),
                   reason = -EAGAIN, NoSum)
        /\ UNCHANGED <<milliSeconds, timer, link>>

WifiConnected ==
    /\ link = "down"
    /\ Handled(StateChangedConnected(Current), Plain("WIFI_CONNECTED"),
               FALSE, NoSum)
    /\ link' = "connected"
    /\ UNCHANGED <<milliSeconds, timer>>

WifiDisconnected ==
    /\ Handled(StateChangedDisconnected(Current), Plain("WIFI_DISCONNECTED"),
               TRUE, NoSum)
    /\ link' = "down"
    /\ UNCHANGED <<milliSeconds, timer>>

WifiDhcpConf ==
    /\ link # "down"
    /\ Handled(DhcpConf(Current), Plain("DHCP_CONF"), FALSE, NoSum)
    /\ link' = "addr"
    /\ UNCHANGED <<milliSeconds, timer>>

Terminal(ds) == is_state_set(ds, COMPLETED) \/ is_state_set(ds, CANCELED)

Watchdog ==
    /\ TimerIsExpired(timer, milliSeconds)
    /\ timer' = TimerCountdown(milliSeconds, NEXT_WINDOW)
    /\ Handled(TimerExpired(Current), Plain("TIMER_EXPIRED"),
               Terminal(down_state),
               IF Terminal(down_state) THEN NoSum ELSE chunk_sum)
    /\ UNCHANGED <<milliSeconds, link>>

\* SysTick_Handler has run n times since the last step
SysTick(n) ==
    /\ milliSeconds' = Add32(milliSeconds, n)
    /\ last' = Plain("TICK")
    /\ calls' = {}
    /\ rewound' = FALSE
    /\ UNCHANGED <<down_state, http_file_size, received_file_size, timer,
                   link, outstanding, chunk_sum, probe>>

Tick ==
    /\ milliSeconds + TickMS <= MaxClockTicks * TickMS
    /\ SysTick(TickMS)

WrapTick == SysTick(WrapTickMS)

Events ==
    \/ HttpSockConnected
    \/ HttpRequested
    \/ HttpRecvResponse
    \/ HttpRecvChunkedData
    \/ HttpDisconnected
    \/ WifiConnected
    \/ WifiDisconnected
    \/ WifiDhcpConf

Next == Events \/ Watchdog \/ Tick

Spec == Init /\ [][Next]_vars

\* The clock never stops, and the main loop, which polls the watchdog many
\* times in each millisecond, sees every expiry.
LiveNext == Events \/ Watchdog \/ WrapTick

LiveSpec ==
    Init /\ [][LiveNext]_vars /\ WF_vars(WrapTick) /\ SF_vars(Watchdog)

(***************************************************************************)
(* The countdown timer on its own.  The clock starts at one of StartClocks *)
(* with the timer initialised; TimerCountdown is called once, with one of  *)
(* the windows the program uses; then the clock advances in steps of       *)
(* ElapseSteps and the two queries are made.  probe keeps the time that    *)
(* has really passed since the countdown, in seconds and milliseconds, so  *)
(* that it is not reduced modulo 2^32.                                     *)
(***************************************************************************)
\* clock values at the countdown: zero, 30 s before the clock wraps to zero,
\* and half a second before the clock reaches 2^31
StartClocks == {0, 0 - 30 * 1000, Sub32(WrapTickMS, 500)}

\* the one-second timer and the two windows of the watchdog
Windows == {1, FIRST_WINDOW, NEXT_WINDOW}

\* sec seconds and ms milliseconds, of which word is the 32-bit word
Elapse(sec, ms, word) == [sec |-> sec, ms |-> ms, word |-> word]

\* 1 ms, 999 ms, 39 s, 59 s and 2^31 ms (2147483 s 648 ms)
ElapseSteps ==
    {Elapse(0, 1, 1), Elapse(0, 999, 999), Elapse(39, 0, 39 * 1000),
     Elapse(59, 0, 59 * 1000), Elapse(2147483, 648, WrapTickMS)}

TimerSpecInit ==
    /\ down_state = init_state
    /\ http_file_size = 0
    /\ received_file_size = 0
    /\ milliSeconds \in StartClocks
    /\ timer = TimerInit
    /\ link = "down"
    /\ last = Plain("init")
    /\ calls = {}
    /\ outstanding = FALSE
    /\ chunk_sum = NoSum
    /\ rewound = FALSE
    /\ probe = NoProbe

NotTimer ==
    UNCHANGED <<down_state, http_file_size, received_file_size, link, last,
                calls, outstanding, chunk_sum, rewound>>

\* TimerCountdown(&timer, n)
TimerArm ==
    \E n \in Windows :
        /\ ~probe.armed
        /\ timer' = TimerCountdown(milliSeconds, n)
        /\ probe' = Probe(TRUE, n, 0, 0, 0, FALSE, FALSE, 0)
        /\ UNCHANGED milliSeconds
        /\ NotTimer

\* SysTick_Handler runs for the time d
TimerElapse ==
    \E d \in ElapseSteps :
        /\ probe.armed
        /\ probe.steps < MaxElapseSteps
        /\ milliSeconds' = Add32(milliSeconds, d.word)
        /\ probe' = Probe(TRUE, probe.n,
                          probe.sec + d.sec + ((probe.ms + d.ms) \div 1000),
                          (probe.ms + d.ms) % 1000,
                          probe.steps + 1, FALSE, FALSE, 0)
        /\ UNCHANGED timer
        /\ NotTimer

\* TimerIsExpired(&timer) and TimerLeftMS(&timer)
TimerQuery ==
    /\ probe.armed
    /\ probe' = [probe EXCEPT !.fresh = TRUE,
                              !.expired = TimerIsExpired(timer, milliSeconds),
                              !.left = TimerLeftMS(timer, milliSeconds)]
    /\ UNCHANGED <<milliSeconds, timer>>
    /\ NotTimer

TimerNext == TimerArm \/ TimerElapse \/ TimerQuery

TimerSpec == TimerSpecInit /\ [][TimerNext]_vars

TypeOK ==
    /\ down_state \subseteq
         (WIFI_CONNECTED \cup GET_REQUESTED \cup DOWNLOADING \cup COMPLETED
          \cup CANCELED)
    /\ http_file_size \in Lengths
    /\ received_file_size \in 0 .. MaxReceived
    /\ milliSeconds \in Int
    /\ timer.end_time \in Int
    /\ link \in {"down", "connected", "addr"}
    /\ calls \subseteq {SEND_REQUEST, CLOSE, REQUEST_DHCP, WIFI_CONNECT}
    /\ outstanding \in BOOLEAN
    /\ chunk_sum \in {NoSum} \cup (0 .. MaxReceived)
    /\ rewound \in BOOLEAN
    /\ probe = NoProbe

(***************************************************************************)
(* Vocabulary of the properties.                                           *)
(***************************************************************************)
\* the step that leads to the primed state called start_download
CallsStartDownload ==
    \/ last'.type = "DHCP_CONF"
    \/ last'.type = "DISCONNECTED" /\ last'.code = -EAGAIN
    \/ last'.type = "TIMER_EXPIRED" /\ Terminal(down_state)

\* the step that leads to the primed state ended the request in flight
EndsRequest ==
    \/ last'.type = "WIFI_DISCONNECTED"
    \/ last'.type = "DISCONNECTED" /\ last'.code = -EAGAIN
    \/ last'.type = "TIMER_EXPIRED" /\ Terminal(down_state)

SizesUnchanged ==
    UNCHANGED <<http_file_size, received_file_size>>

\* ev delivered a packet that store_file_packet accepts
Accepted(ev) == ev.hasdata /\ ev.length >= 1

C2_AtMostOneOutstanding ==
    [][ (outstanding /\ SEND_REQUEST \in calls') => EndsRequest ]_vars

(***************************************************************************)
(* C3.  While COMPLETED or CANCELED is set, no step other than the         *)
(* watchdog expiry issues an HTTP request.                                 *)
(***************************************************************************)
C3_NoRequestWhileTerminal ==
    [][ (Terminal(down_state) /\ SEND_REQUEST \in calls')
          => last'.type = "TIMER_EXPIRED" ]_vars

(***************************************************************************)
(* C4.  Completion correctness: a step sets COMPLETED only if after it     *)
(* received_file_size >= http_file_size, or if it is a body-chunk event    *)
(* that carries the final-chunk signal.                                    *)
(***************************************************************************)
C4_CompletionCorrectness ==
    [][ (~is_state_set(down_state, COMPLETED)
         /\ is_state_set(down_state', COMPLETED))
          => \/ received_file_size' >= http_file_size'
             \/ last'.type = "RECV_CHUNKED_DATA" /\ last'.is_complete
      ]_vars

WatchdogRestarted ==
    /\ last.type = "TIMER_EXPIRED"
    /\ SEND_REQUEST \in calls
    /\ down_state = WIFI_CONNECTED

C6_RestartLiveness == Terminal(down_state) ~> WatchdogRestarted

\* the watchdog restarted the cycle of an attempt that was canceled
C6_Witness ==
    /\ WatchdogRestarted
    /\ outstanding
    /\ milliSeconds # 0

(***************************************************************************)
(* C7.  Self-healing liveness: with the link staying up, after an HTTP     *)
(* disconnect event with any reason that arrives while GET_REQUESTED or    *)
(* DOWNLOADING is set and no terminal flag is set, a new HTTP request is   *)
(* eventually issued.                                                      *)
(***************************************************************************)
\* the state after such a disconnect event: a retry-eligible one has
\* cleared the two flags, any other has left them set
DisconnectedInFlight ==
    /\ last.type = "DISCONNECTED"
    /\ ~Terminal(down_state)
    /\ link = "addr"
    /\ \/ last.code = -EAGAIN
       \/ is_state_set(down_state, GET_REQUESTED)
       \/ is_state_set(down_state, DOWNLOADING)

C7_SelfHealing ==
    DisconnectedInFlight ~> (SEND_REQUEST \in calls \/ link # "addr")

(***************************************************************************)
(* C8.  Inline-body completion: a headers-received event with status 200,  *)
(* a content length L <= MAIN_BUFFER_MAX_SIZE and an inline body of L      *)
(* bytes makes http_file_size and received_file_size L, closes the         *)
(* transport and sets COMPLETED, all within the event; and a body-chunk    *)
(* event delivered after it changes neither received_file_size nor         *)
(* down_state.                                                             *)
(***************************************************************************)
InlineBody(ev) ==
    /\ ev.type = "RECV_RESPONSE"
    /\ ev.code = HTTP_OK
    /\ ev.length <= MAIN_BUFFER_MAX_SIZE
    /\ ev.hasdata \/ ev.length = 0

\* the effect of the headers event itself
InlineCompletes ==
    InlineBody(last') =>
        /\ http_file_size' = last'.length
        /\ received_file_size' = last'.length
        /\ CLOSE \in calls'
        /\ is_state_set(down_state', COMPLETED)

\* chunk events that follow it are not processed
LaterChunkIgnored ==
    (InlineBody(last) /\ last'.type = "RECV_CHUNKED_DATA") =>
        UNCHANGED <<received_file_size, down_state>>

C8_InlineCompletion == [][InlineCompletes /\ LaterChunkIgnored]_vars

CompletedUnchanged ==
    is_state_set(down_state', COMPLETED) <=> is_state_set(down_state, COMPLETED)

C10_RetryNow ==
    [][ last'.type = "DISCONNECTED" =>
          IF last'.code = -EAGAIN
          THEN /\ down_state' = down_state \ (DOWNLOADING \cup GET_REQUESTED)
               /\ (SEND_REQUEST \in calls')
                    <=> is_state_set(down_state, WIFI_CONNECTED)
               /\ SizesUnchanged
          ELSE /\ UNCHANGED down_state
               /\ calls' = {}
               /\ SizesUnchanged
      ]_vars

\* a retry-eligible disconnect after the download had completed: the two
\* attempt flags are cleared, COMPLETED stays and the request is issued
C10_Witness ==
    /\ last.type = "DISCONNECTED"
    /\ last.code = -EAGAIN
    /\ SEND_REQUEST \in calls
    /\ is_state_set(down_state, COMPLETED)
    /\ ~is_state_set(down_state, GET_REQUESTED)
    /\ ~is_state_set(down_state, DOWNLOADING)

(***************************************************************************)
(* C11.  Scenario E: a watchdog expiry while neither COMPLETED nor         *)
(* CANCELED is set rearms the watchdog, which then has its full window of  *)
(* 60 seconds left, leaves down_state and the two sizes as they were and   *)
(* calls no collaborator, so issues no request, whatever the values of     *)
(* WIFI_CONNECTED, GET_REQUESTED and DOWNLOADING.                          *)
(***************************************************************************)
\* the watchdog has just been armed for its recurring window
RearmedForNextWindow ==
    /\ ~TimerIsExpired(timer', milliSeconds')
    /\ TimerLeftMS(timer', milliSeconds') = NEXT_WINDOW * 1000

C11_IdleExpiryRearmsOnly ==
    [][ (last'.type = "TIMER_EXPIRED" /\ ~Terminal(down_state)) =>
          /\ RearmedForNextWindow
          /\ UNCHANGED <<down_state, http_file_size, received_file_size>>
          /\ calls' = {}
      ]_vars

\* the watchdog expired in the middle of a transfer and only rearmed
C11_Witness ==
    /\ last.type = "TIMER_EXPIRED"
    /\ calls = {}
    /\ down_state = WIFI_CONNECTED \cup GET_REQUESTED \cup DOWNLOADING
    /\ received_file_size >= 1
    /\ received_file_size < http_file_size
    /\ TimerLeftMS(timer, milliSeconds) = NEXT_WINDOW * 1000

(***************************************************************************)
(* C12.  Non-success status: a headers-received event whose status is not  *)
(* 200 adds CANCELED to down_state and does nothing else (the sizes are    *)
(* unchanged, COMPLETED is not set, the inline body is not stored, the     *)
(* transport is not closed); and a body-chunk event that follows it        *)
(* accumulates no progress: received_file_size stays as it was.            *)
(***************************************************************************)
NonSuccess(ev) == ev.type = "RECV_RESPONSE" /\ ev.code # HTTP_OK

\* the effect of the headers event itself
NonSuccessCancelsOnly ==
    NonSuccess(last') =>
        /\ down_state' = down_state \cup CANCELED
        /\ SizesUnchanged
        /\ calls' = {}

\* chunk events that follow it are not counted
NoProgressAfterCancel ==
    (NonSuccess(last) /\ last'.type = "RECV_CHUNKED_DATA") =>
        UNCHANGED received_file_size

C12_NonSuccessCancels ==
    [][NonSuccessCancelsOnly /\ NoProgressAfterCancel]_vars

(***************************************************************************)
(* C13.  Watchdog reset: the first window after startup is 40 seconds, so  *)
(* the watchdog does not expire before the clock has passed 40000 ms; an   *)
(* expiry while COMPLETED or CANCELED is set rearms the watchdog for 60    *)
(* seconds, leaves down_state exactly WIFI_CONNECTED and issues exactly    *)
(* one HTTP request, which is its only call; and after any expiry the      *)
(* rearmed timer is not expired, so that the block does not run again      *)
(* until the clock has advanced.                                           *)
(***************************************************************************)
\* until the first window has passed the watchdog is the one armed at startup
InFirstWindow ==
    milliSeconds <= FIRST_WINDOW * 1000 =>
        /\ ~TimerIsExpired(timer, milliSeconds)
        /\ TimerLeftMS(timer, milliSeconds)
             = FIRST_WINDOW * 1000 - milliSeconds

C13_WatchdogReset ==
    /\ InFirstWindow
    /\ [][ /\ InFirstWindow'
           /\ last'.type = "TIMER_EXPIRED" =>
                /\ milliSeconds > FIRST_WINDOW * 1000
                /\ RearmedForNextWindow
                /\ Terminal(down_state) =>
                     /\ down_state' = WIFI_CONNECTED
                     /\ calls' = {SEND_REQUEST}
                     /\ outstanding'
                     /\ SizesUnchanged
         ]_vars

\* the watchdog reset a completed attempt while the link was up
C13_Witness ==
    /\ last.type = "TIMER_EXPIRED"
    /\ calls = {SEND_REQUEST}
    /\ down_state = WIFI_CONNECTED
    /\ link = "addr"
    /\ received_file_size >= 1
    /\ received_file_size = http_file_size
    /\ TimerLeftMS(timer, milliSeconds) = NEXT_WINDOW * 1000
    /\ ~TimerIsExpired(timer, milliSeconds)

(***************************************************************************)
(* C14.  WIFI_CONNECTED tracks the real link: after every step,            *)
(* WIFI_CONNECTED is set only if the link is up with its address assigned; *)
(* the flag goes from set to clear only in the link-disconnected handler;  *)
(* and no HTTP request is issued while the link is down.  This includes    *)
(* the watchdog reset that happens between a link-disconnected and the     *)
(* next address-assigned notification while a terminal flag is set.        *)
(***************************************************************************)
C14_FlagTracksLink ==
    [][ /\ is_state_set(down_state', WIFI_CONNECTED) => link' = "addr"
        /\ (is_state_set(down_state, WIFI_CONNECTED)
            /\ ~is_state_set(down_state', WIFI_CONNECTED))
             => last'.type = "WIFI_DISCONNECTED"
        /\ SEND_REQUEST \in calls' => link' # "down"
      ]_vars

(***************************************************************************)
(* C15.  Link events.  A link-disconnected notification removes exactly    *)
(* WIFI_CONNECTED, DOWNLOADING and GET_REQUESTED from down_state (so       *)
(* COMPLETED and CANCELED stay as they were), leaves the two sizes, and    *)
(* its only call re-initiates the access-point connection.  A              *)
(* link-connected notification changes no flag and no size, and its only   *)
(* call requests the address assignment.  An address-assigned notification *)
(* adds WIFI_CONNECTED, leaves the sizes, and issues an HTTP request, its   *)
(* only possible call, exactly when GET_REQUESTED and DOWNLOADING are      *)
(* clear.                                                                  *)
(***************************************************************************)
C15_LinkEvents ==
    [][ /\ last'.type = "WIFI_DISCONNECTED" =>
             /\ down_state' = down_state
                   \ (WIFI_CONNECTED \cup DOWNLOADING \cup GET_REQUESTED)
             /\ SizesUnchanged
             /\ calls' = {WIFI_CONNECT}
        /\ last'.type = "WIFI_CONNECTED" =>
             /\ UNCHANGED down_state
             /\ SizesUnchanged
             /\ calls' = {REQUEST_DHCP}
        /\ last'.type = "DHCP_CONF" =>
             /\ down_state' = down_state \cup WIFI_CONNECTED
             /\ SizesUnchanged
             /\ calls' = IF is_state_set(down_state, GET_REQUESTED)
                            \/ is_state_set(down_state, DOWNLOADING)
                         THEN {} ELSE {SEND_REQUEST}
      ]_vars

\* the link was lost after a completed download: COMPLETED and the sizes are
\* kept, the three other flags are clear, the connection is re-initiated
C15_Witness ==
    /\ last.type = "WIFI_DISCONNECTED"
    /\ down_state = COMPLETED
    /\ received_file_size = 2
    /\ http_file_size = 2
    /\ calls = {WIFI_CONNECT}
    /\ link = "down"
    /\ ~outstanding

(***************************************************************************)
(* C16.  Empty chunk, as the claim states it: a body-chunk event whose     *)
(* data pointer is null or whose length is 0 changes neither down_state    *)
(* nor the two sizes and does not close the transport, whatever the state  *)
(* before it and whatever its final-chunk signal.                          *)
(***************************************************************************)
EmptyChunk(ev) == ev.type = "RECV_CHUNKED_DATA" /\ ~Accepted(ev)

C16_EmptyChunkDiscarded ==
    [][ EmptyChunk(last') =>
          /\ UNCHANGED down_state
          /\ SizesUnchanged
          /\ CLOSE \notin calls'
      ]_vars

(***************************************************************************)
(* C16, amended.  The data of such an event is discarded: the two sizes    *)
(* and the flags other than COMPLETED are as they were.  Without the       *)
(* final-chunk signal nothing changes and no call is made; with the signal *)
(* the event still ends the download: it adds COMPLETED and closes the     *)
(* transport.                                                              *)
(***************************************************************************)
C16_EmptyChunkData ==
    [][ EmptyChunk(last') =>
          /\ SizesUnchanged
          /\ IF last'.is_complete
             THEN /\ down_state' = down_state \cup COMPLETED
                  /\ calls' = {CLOSE}
             ELSE /\ UNCHANGED down_state
                  /\ calls' = {}
      ]_vars

\* an empty chunk with the final-chunk signal ended a transfer that had
\* received part of the announced length
C16_Witness ==
    /\ EmptyChunk(last)
    /\ last.is_complete
    /\ down_state = WIFI_CONNECTED \cup DOWNLOADING \cup COMPLETED
    /\ received_file_size >= 1
    /\ received_file_size < http_file_size
    /\ calls = {CLOSE}

(***************************************************************************)
(* C17.  Final-chunk signal and transport close: a body-chunk event with   *)
(* the final-chunk signal closes the transport and sets COMPLETED whatever *)
(* the two sizes are; a step closes the transport only if it is such an    *)
(* event or a success-headers event with a content length within the       *)
(* buffer capacity; so a chunk without the signal that completes the       *)
(* download by its byte count sets COMPLETED and does not close.           *)
(***************************************************************************)
FinalChunk(ev) == ev.type = "RECV_CHUNKED_DATA" /\ ev.is_complete

InlineHeaders(ev) ==
    /\ ev.type = "RECV_RESPONSE"
    /\ ev.code = HTTP_OK
    /\ ev.length <= MAIN_BUFFER_MAX_SIZE

C17_TransportClose ==
    [][ /\ FinalChunk(last') =>
             /\ CLOSE \in calls'
             /\ is_state_set(down_state', COMPLETED)
        /\ CLOSE \in calls' => (FinalChunk(last') \/ InlineHeaders(last'))
        /\ (last'.type = "RECV_CHUNKED_DATA" /\ ~last'.is_complete
            /\ Accepted(last')
            /\ received_file_size' >= http_file_size') =>
             /\ is_state_set(down_state', COMPLETED)
             /\ CLOSE \notin calls'
      ]_vars

\* a chunk without the final-chunk signal has just completed a download of
\* two bytes by its byte count, and the transport was left open
C17_Witness ==
    /\ last.type = "RECV_CHUNKED_DATA"
    /\ ~last.is_complete
    /\ ~is_state_set(down_state, CANCELED)
    /\ is_state_set(down_state, COMPLETED)
    /\ http_file_size = 2
    /\ received_file_size = 2
    /\ calls = {}

(***************************************************************************)
(* C18.  Terminal flags are sticky: a step takes COMPLETED or CANCELED     *)
(* from set to clear only if it is a watchdog expiry, whatever Wi-Fi or    *)
(* HTTP event it handles and whether or not it calls start_download; and a *)
(* watchdog expiry that finds no terminal flag set changes no flag.        *)
(***************************************************************************)
C18_TerminalSticky ==
    [][ /\ (Terminal(down_state)
            /\ ~((down_state \cap (COMPLETED \cup CANCELED)) \subseteq
                   down_state'))
             => last'.type = "TIMER_EXPIRED"
        /\ (last'.type = "TIMER_EXPIRED" /\ ~Terminal(down_state))
             => UNCHANGED down_state
      ]_vars

\* a retry-eligible disconnect arrived after a canceled attempt: the request
\* is issued again and CANCELED is still set
C18_Witness ==
    /\ last.type = "DISCONNECTED"
    /\ last.code = -EAGAIN
    /\ is_state_set(down_state, CANCELED)
    /\ SEND_REQUEST \in calls
    /\ chunk_sum = NoSum

(***************************************************************************)
(* C19.  Terminal flags are mutually exclusive: COMPLETED and CANCELED are *)
(* never both set in down_state.                                           *)
(***************************************************************************)
C19_TerminalExclusive ==
    ~(is_state_set(down_state, COMPLETED) /\ is_state_set(down_state, CANCELED))

(***************************************************************************)
(* Vocabulary of the timer properties: the time that has passed since the  *)
(* countdown, probe.sec seconds and probe.ms milliseconds, against the     *)
(* window of probe.n seconds.                                              *)
(***************************************************************************)
\* the elapsed ticks are <= n * 1000
ElapsedAtMostWindow ==
    probe.sec < probe.n \/ (probe.sec = probe.n /\ probe.ms = 0)

\* the deadline minus the clock, when the elapsed ticks are <= n * 1000
Remaining == (probe.n - probe.sec) * 1000 - probe.ms

\* the elapsed ticks are <= n * 1000 + 2 ^ 31, which is 2147483 s 648 ms
\* after the deadline
WithinHalfPeriod ==
    \/ probe.sec - probe.n < 2147483
    \/ probe.sec - probe.n = 2147483 /\ probe.ms <= 648

\* the results of the two queries are those of an exact comparison of the
\* elapsed ticks with the window
QueriesExact ==
    /\ probe.expired <=> ~ElapsedAtMostWindow
    /\ probe.left = IF ElapsedAtMostWindow THEN Remaining ELSE 0

\* just after TimerCountdown the deadline is the clock plus n * 1000
DeadlineSet ==
    (probe.armed /\ probe.steps = 0) =>
        Sub32(timer.end_time, milliSeconds) = probe.n * 1000

\* the time left is never negative, and is 0 when the timer is expired
LeftSaturates ==
    /\ probe.left >= 0
    /\ probe.expired => probe.left = 0

(***************************************************************************)
(* C20.  Countdown timer arithmetic, as the claim states it: after         *)
(* TimerCountdown(t, n) at clock value c the deadline is c + n * 1000      *)
(* modulo 2^32; TimerIsExpired is false while the elapsed ticks are        *)
(* <= n * 1000 and true once they exceed n * 1000; TimerLeftMS is the      *)
(* deadline minus the clock when that is positive and 0 otherwise, so      *)
(* never negative and 0 whenever TimerIsExpired is true.                   *)
(***************************************************************************)
C20_TimerExact ==
    /\ DeadlineSet
    /\ probe.fresh => (QueriesExact /\ LeftSaturates)

(***************************************************************************)
(* C20, amended.  For the windows the program uses (n * 1000 < 2^31) the   *)
(* deadline is c + n * 1000 modulo 2^32; as long as the elapsed ticks are  *)
(* not more than n * 1000 + 2^31, TimerIsExpired is false while they are   *)
(* <= n * 1000 and true once they exceed n * 1000, also when the deadline  *)
(* has wrapped past 2^32, and TimerLeftMS is n * 1000 minus the elapsed    *)
(* ticks before the deadline and 0 from it on; whatever time has passed,   *)
(* TimerLeftMS is never negative and is 0 when TimerIsExpired is true; and *)
(* the queries change neither the timer nor the clock.                     *)
(***************************************************************************)
C20_TimerWithinHalfPeriod ==
    [][ /\ DeadlineSet'
        /\ probe'.fresh =>
              /\ UNCHANGED <<timer, milliSeconds>>
              /\ LeftSaturates'
              /\ WithinHalfPeriod' => QueriesExact'
      ]_vars

\* armed for 60 s at 30 s before the clock wraps, so that the deadline
\* wrapped to 30000; one millisecond after the deadline the timer is expired
C20_Witness ==
    /\ probe.fresh
    /\ probe.n = NEXT_WINDOW
    /\ probe.sec = NEXT_WINDOW
    /\ probe.ms = 1
    /\ timer.end_time = 30 * 1000
    /\ milliSeconds = 30 * 1000 + 1
    /\ probe.expired
    /\ probe.left = 0

=============================================================================
